---- MODULE Spec2Model ----
(***************************************************************************)
(* Build Scope Analyzer V4 (src/build-scope-analyzer/main.py).             *)
(*                                                                         *)
(* A string is a sequence of one-character strings; a path is a sequence   *)
(* of components (strings), the empty sequence being Path('.').            *)
(* One run of generate_matrix_output is a chain of steps over a working    *)
(* tree and a version-control diff that Init draws from bounded sets.      *)
(***************************************************************************)
EXTENDS Integers, Sequences, FiniteSets, TLC

\* ------------------------------------------------------------------------
\* Bounds of the model
\* ------------------------------------------------------------------------
\* number of candidate files that are on disk or named by the diff
MaxFiles == 2
\* length of the strings handed to _normalize_azure_name on its own
MaxLen == 4
MaxRecords == 2
MaxRuns == 2
\* lines of a build-definition file
MaxLines == 11
\* build-definition files of one folder on disk
MaxDockerfiles == 2

\* ------------------------------------------------------------------------
\* Strings
\* ------------------------------------------------------------------------
Uppers == <<"A","B","C","D","E","F","G","H","I","J","K","L","M",
            "N","O","P","Q","R","S","T","U","V","W","X","Y","Z">>
Lowers == <<"a","b","c","d","e","f","g","h","i","j","k","l","m",
            "n","o","p","q","r","s","t","u","v","w","x","y","z">>
Digits == {"0","1","2","3","4","5","6","7","8","9"}

LowerSet == {Lowers[i] : i \in 1..26}

\* the character class [a-z0-9-]
Allowed == LowerSet \cup Digits \cup {"-"}

\* str.lower() on one character
LowerChar(c) ==
  IF \E i \in 1..26 : Uppers[i] = c
  THEN Lowers[CHOOSE i \in 1..26 : Uppers[i] = c]
  ELSE c

\* str.lower()
ToLower(s) == [i \in 1..Len(s) |-> LowerChar(s[i])]

\* re.sub(r'[^a-z0-9-]', '-', name)
ReplaceDisallowed(s) == [i \in 1..Len(s) |-> IF s[i] \in Allowed THEN s[i] ELSE "-"]

\* re.sub(r'-+', '-', name)
RECURSIVE CollapseDashes(_)
CollapseDashes(s) ==
  IF Len(s) < 2 THEN s
  ELSE IF s[1] = "-" /\ s[2] = "-" THEN CollapseDashes(Tail(s))
  ELSE <<s[1]>> \o CollapseDashes(Tail(s))

RECURSIVE LStripDash(_)
LStripDash(s) == IF s # <<>> /\ s[1] = "-" THEN LStripDash(Tail(s)) ELSE s

RECURSIVE RStripDash(_)
RStripDash(s) ==
  IF s # <<>> /\ s[Len(s)] = "-" THEN RStripDash(SubSeq(s, 1, Len(s) - 1)) ELSE s

\* str.strip('-')
StripDashes(s) == RStripDash(LStripDash(s))

\* _normalize_azure_name without the final strip('-')
NormalizeWithoutStrip(name) ==
  CollapseDashes(ReplaceDisallowed(ToLower(name)))

\* _normalize_azure_name
NormalizeAzureName(name) ==
  StripDashes(CollapseDashes(ReplaceDisallowed(ToLower(name))))

\* str.startswith
StartsWith(s, p) == Len(s) >= Len(p) /\ SubSeq(s, 1, Len(p)) = p

\* str.replace(old, '') : every non-overlapping occurrence, left to right
RECURSIVE RemoveAll(_, _)
RemoveAll(s, old) ==
  IF s = <<>> THEN <<>>
  ELSE IF StartsWith(s, old) THEN RemoveAll(SubSeq(s, Len(old) + 1, Len(s)), old)
  ELSE <<s[1]>> \o RemoveAll(Tail(s), old)

\* fnmatch.fnmatch(name, pat) for patterns of literals, '*' and '?'
\* ('*' also matches '/')
RECURSIVE FnMatch(_, _)
FnMatch(s, p) ==
  IF p = <<>> THEN s = <<>>
  ELSE IF p[1] = "*" THEN FnMatch(s, Tail(p)) \/ (s # <<>> /\ FnMatch(Tail(s), p))
  ELSE IF s = <<>> THEN FALSE
  ELSE (p[1] = "?" \/ p[1] = s[1]) /\ FnMatch(Tail(s), Tail(p))

\* ------------------------------------------------------------------------
\* Paths (pathlib.Path)
\* ------------------------------------------------------------------------
\* Path.parent ; Path('.').parent is Path('.')
Parent(p) == IF p = <<>> THEN <<>> ELSE SubSeq(p, 1, Len(p) - 1)

\* Path.name ; Path('.').name is ''
BaseName(p) == IF p = <<>> THEN <<>> ELSE p[Len(p)]

RECURSIVE JoinSlash(_)
JoinSlash(p) ==
  IF Len(p) = 1 THEN p[1] ELSE p[1] \o <<"/">> \o JoinSlash(Tail(p))

\* str(path)
PathStr(p) == IF p = <<>> THEN <<".">> ELSE JoinSlash(p)

\* file names the analyzer recognizes
AppYaml == <<"a","p","p",".","y","a","m","l">>
AppYml == <<"a","p","p",".","y","m","l">>
Dockerfile == <<"D","o","c","k","e","r","f","i","l","e">>
DockerfileDot == Dockerfile \o <<".">>

\* filename in ['app.yaml', 'app.yml']
IsAppConfigName(n) == n \in {AppYaml, AppYml}

\* filename == 'Dockerfile' or filename.startswith('Dockerfile.')
IsDockerfileName(n) == n = Dockerfile \/ StartsWith(n, DockerfileDot)

\* '' if name == 'Dockerfile' else name.replace('Dockerfile.', '')
SuffixOf(n) == IF n = Dockerfile THEN <<>> ELSE RemoveAll(n, DockerfileDot)

\* Path(string) for the strings the analyzer converts back: split on '/',
\* dropping empty and '.' components
RECURSIVE SplitSlash(_, _)
SplitSlash(s, cur) ==
  IF s = <<>> THEN <<cur>>
  ELSE IF s[1] = "/" THEN <<cur>> \o SplitSlash(Tail(s), <<>>)
  ELSE SplitSlash(Tail(s), cur \o <<s[1]>>)

ParsePath(s) == SelectSeq(SplitSlash(s, <<>>), LAMBDA c : c # <<>> /\ c # <<".">>)

\* ------------------------------------------------------------------------
\* Python values
\* ------------------------------------------------------------------------
\* None where a string is expected
NoneVal == <<"None">>
\* None where a Path is expected
NonePath == <<NoneVal>>
\* truth value of an Optional[str]
Truthy(s) == s # NoneVal /\ s # <<>>

\* a set as a list in one fixed order
SetToSeq(S) == CHOOSE q \in [1..Cardinality(S) -> S] : {q[i] : i \in 1..Cardinality(S)} = S

\* every order a set or a directory walk can be iterated in
Orderings(S) == {q \in [1..Cardinality(S) -> S] : {q[i] : i \in 1..Cardinality(S)} = S}

\* ------------------------------------------------------------------------
\* The bounded world: working tree, configuration documents, diff
\* ------------------------------------------------------------------------
DirA == <<"a">>
FolderX == <<DirA, <<"x">>>>
FolderT == <<DirA, <<"T","_">>>>
FolderSub == FolderX \o <<<<"s">>>>
FolderGone == <<DirA, <<"z">>>>
DockerfileB == DockerfileDot \o <<"B","_">>
OtherFile == <<"r">>

\* Path(root_path).resolve().name
RootName == <<"R","_">>

CandFiles ==
  { FolderX \o <<AppYaml>>, FolderX \o <<AppYml>>, FolderX \o <<Dockerfile>>,
    FolderX \o <<DockerfileB>>, FolderX \o <<OtherFile>>,
    FolderT \o <<Dockerfile>>,
    FolderSub \o <<OtherFile>>,
    <<AppYaml>>, <<AppYml>> }

\* what a configuration document declares: a top-level name, or nothing
\* (no name key, parse failure or unreadable file)
DeclaredNames == { <<"M","_">>, <<"p">> }
Contents == DeclaredNames \cup {NoneVal}

\* status of a candidate file against the comparison reference: unchanged,
\* added, modified, deleted, or the destination of a rename
Statuses(f) ==
  IF f = FolderX \o <<OtherFile>> THEN {"kept", "M"}
  ELSE IF f = FolderSub \o <<OtherFile>> THEN {"M", "D"}
  ELSE IF f = FolderX \o <<DockerfileB>> THEN {"kept", "A", "D"}
  ELSE IF f \in {FolderX \o <<AppYaml>>, FolderX \o <<Dockerfile>>}
    THEN {"kept", "M", "D", "R"}
  ELSE {"kept", "M", "D"}
AllStatuses == {"kept", "A", "M", "D", "R"}
OnDisk(st) == st \in {"kept", "A", "M", "R"}

\* where a renamed file can come from
OldCands(f) ==
  { FolderGone \o <<BaseName(f)>> } \cup
  (IF BaseName(f) = AppYaml THEN { Parent(f) \o <<AppYml>> } ELSE {})

\* constructor arguments <<include_pattern, exclude_pattern>>
PatA == <<"a","/","*">>
PatT == <<"a","/","T","*">>
PatternPairs == { <<<<>>, <<>>>>, <<PatA, PatT>>, <<<<".">>, PatT>> }

Events == {"push", "pull_request", "workflow_dispatch"}

\* stdout of a successful git rev-parse
Sha == <<"s","1">>

\* one line of git diff --name-status, split on tabs: the status and the paths
DiffLine(status, paths) == [status |-> status, paths |-> paths]

\* the status git diff --name-status prints for a rename: R followed by the
\* similarity score
RenameStatus == "R100"

\* the statuses of a Renamed record, with and without a score
RenameStatuses == {"R", RenameStatus}

\* the diff git prints for a world: one line per added, modified, deleted or
\* renamed path
DiffOf(S, st, old) ==
  LET changedSet == {f \in S : st[f] # "kept"}
      q == SetToSeq(changedSet)
  IN [i \in 1..Len(q) |->
        IF st[q[i]] = "R" THEN DiffLine(RenameStatus, <<old[q[i]], q[i]>>)
        ELSE DiffLine(st[q[i]], <<q[i]>>)]

\* ------------------------------------------------------------------------
\* State
\* ------------------------------------------------------------------------
VARIABLES
  tree,               \* files on disk, relative to root_path
  content,            \* configuration file on disk -> declared name or None
  dockerText,         \* build-definition file on disk -> its lines
  event,              \* GITHUB_EVENT_NAME
  revParseOk,         \* git rev-parse exits zero
  diffOk,             \* git diff exits zero
  diffOut,            \* lines git diff --name-status prints
  include_arg,        \* the include_pattern argument of __init__
  include_pattern,    \* self.include_pattern
  exclude_pattern,    \* self.exclude_pattern
  pc,                 \* position in generate_matrix_output
  changed_files,      \* self.changed_files
  deleted_files,      \* self.deleted_files
  renamed_files,      \* self.renamed_files
  ref_name,           \* local ref_name of generate_matrix_output
  commit_sha,         \* local commit_sha of generate_matrix_output
  discovered,         \* local discovered
  inventory,          \* local inventory
  all_apps, updated_apps, all_containers, updated_containers,
  deleted_apps, deleted_containers,
  matrix,             \* the returned matrix, None before the return
  git_calls,          \* git commands run_git_command was given in this call
  calls,              \* calls of generate_matrix_output begun on this instance
  prev_matrix,        \* the matrix the previous call returned
  nx, ny              \* argument and result of _normalize_azure_name on its own

envVars == <<tree, content, dockerText, event, revParseOk, diffOk, diffOut,
             include_arg, include_pattern, exclude_pattern>>
gitVars == <<changed_files, deleted_files, renamed_files>>
refVars == <<ref_name, commit_sha>>
outVars == <<all_apps, updated_apps, all_containers, updated_containers>>
delVars == <<deleted_apps, deleted_containers>>
normVars == <<nx, ny>>
callVars == <<calls, prev_matrix>>
vars == <<envVars, pc, gitVars, refVars, discovered, inventory, outVars, delVars,
          matrix, git_calls, callVars, normVars>>

\* ------------------------------------------------------------------------
\* The analyzer's functions
\* ------------------------------------------------------------------------
\* _normalize_pattern
NormalizePattern(pattern) ==
  IF pattern \in { <<"/">>, <<".">>, <<".","/">> } THEN <<>> ELSE pattern

\* should_include_path without the exclude test
ShouldIncludePathIncludeOnly(path, inc, exc) ==
  LET path_str == PathStr(path)
  IN IF inc # <<>> /\ ~FnMatch(path_str, inc) THEN FALSE
     ELSE TRUE

\* should_include_path
ShouldIncludePath(path, inc, exc) ==
  LET path_str == PathStr(path)
  IN IF inc # <<>> /\ ~FnMatch(path_str, inc) THEN FALSE
     ELSE IF exc # <<>> /\ FnMatch(path_str, exc) THEN FALSE
     ELSE TRUE

RefHead == <<"H","E","A","D","~","1">>
RefBase == <<"o","r","i","g","i","n","/","m","a","i","n">>

\* get_comparison_ref without the workflow_dispatch branch
GetComparisonRefNoManual(ev, rpOk) ==
  LET ref == IF ev = "pull_request" THEN RefBase ELSE RefHead
  IN IF rpOk THEN <<ref, Sha>> ELSE <<ref, NoneVal>>

\* get_comparison_ref : <<ref_name, commit_sha>>; a failing rev-parse ends in
\* the bare except, which gives (ref_name, None)
GetComparisonRef(ev, rpOk) ==
  IF ev = "workflow_dispatch" THEN << <<>>, NoneVal >>
  ELSE LET ref == IF ev = "pull_request" THEN RefBase ELSE RefHead
       IN IF rpOk THEN <<ref, Sha>> ELSE <<ref, NoneVal>>

\* get_comparison_ref resolving the commit before it looks at the event
CommandsOfRefBeforeEvent(ev) == <<"rev-parse">>

\* the git commands get_comparison_ref hands to run_git_command
CommandsOfRef(ev) == IF ev = "workflow_dispatch" THEN <<>> ELSE <<"rev-parse">>

\* the git commands get_changed_files issues after get_comparison_ref
CommandsOfDiff(ref) == IF ref = <<>> THEN <<>> ELSE <<"diff">>

\* the parsing loop of get_changed_files over the lines from position i on
RECURSIVE ParseDiff(_, _, _)
ParseDiff(lines, i, acc) ==
  IF i > Len(lines) THEN acc
  ELSE LET line == lines[i]
           nparts == 1 + Len(line.paths)
       IN IF nparts < 2 THEN ParseDiff(lines, i + 1, acc)
          ELSE IF line.status = "D"
            THEN ParseDiff(lines, i + 1,
                   [acc EXCEPT !.deleted = @ \cup {line.paths[1]}])
          ELSE IF line.status = "R" /\ nparts >= 3
            THEN ParseDiff(lines, i + 1,
                   [acc EXCEPT
                      !.renamed = [o \in (DOMAIN @) \cup {line.paths[1]} |->
                                     IF o = line.paths[1] THEN line.paths[2] ELSE @[o]],
                      !.changed = @ \cup {line.paths[2]}])
          ELSE IF line.status \in {"A", "M"}
            THEN ParseDiff(lines, i + 1,
                   [acc EXCEPT !.changed = @ \cup {line.paths[1]}])
          ELSE ParseDiff(lines, i + 1, acc)

EmptyFun == [o \in {} |-> <<>>]
EmptyChanges == [changed |-> {}, deleted |-> {}, renamed |-> EmptyFun]

\* discover_files over the files in the order the walk yields them
DiscoverFilesIn(walk) ==
  [ app_configs |-> SelectSeq(walk, LAMBDA f : IsAppConfigName(BaseName(f))),
    dockerfiles |-> SelectSeq(walk, LAMBDA f : ~IsAppConfigName(BaseName(f))
                                               /\ IsDockerfileName(BaseName(f))) ]

\* extract_app_name_from_yaml
ExtractAppNameFromYaml(yaml_path, cont) ==
  IF yaml_path \in DOMAIN cont THEN cont[yaml_path] ELSE NoneVal

Whitespace == {" ", "\t"}

RECURSIVE LStripWs(_)
LStripWs(s) == IF s # <<>> /\ s[1] \in Whitespace THEN LStripWs(Tail(s)) ELSE s

RECURSIVE RStripWs(_)
RStripWs(s) ==
  IF s # <<>> /\ s[Len(s)] \in Whitespace THEN RStripWs(SubSeq(s, 1, Len(s) - 1)) ELSE s

\* str.strip()
StripWs(s) == RStripWs(LStripWs(s))

\* str.split(':', 1)[1] of a string that holds a ':'
RECURSIVE AfterFirstColon(_)
AfterFirstColon(s) == IF s[1] = ":" THEN Tail(s) ELSE AfterFirstColon(Tail(s))

ContextDirective == <<"#"," ","@","c","o","n","t","e","x","t",":">>

\* a readline loop that reads to the end of the file
RECURSIVE ContextFromLinesUnlimited(_, _, _)
ContextFromLinesUnlimited(lines, i, default) ==
  IF i > Len(lines) THEN default
  ELSE IF StartsWith(StripWs(lines[i]), ContextDirective)
    THEN StripWs(AfterFirstColon(StripWs(lines[i])))
  ELSE ContextFromLinesUnlimited(lines, i + 1, default)

\* the readline loop of get_dockerfile_context from line i on
RECURSIVE ContextFromLines(_, _, _)
ContextFromLines(lines, i, default) ==
  IF i > 10 \/ i > Len(lines) THEN default
  ELSE IF StartsWith(StripWs(lines[i]), ContextDirective)
    THEN StripWs(AfterFirstColon(StripWs(lines[i])))
  ELSE ContextFromLines(lines, i + 1, default)

\* get_dockerfile_context ; a file that cannot be opened gives the default
GetDockerfileContext(dockerfile_path, texts) ==
  IF dockerfile_path \in DOMAIN texts
  THEN ContextFromLines(texts[dockerfile_path], 1, PathStr(Parent(dockerfile_path)))
  ELSE PathStr(Parent(dockerfile_path))

\* position of a folder in the insertion-ordered dict folders, 0 if absent
FolderIndex(folders, folder) ==
  IF \E i \in 1..Len(folders) : folders[i].folder = folder
  THEN CHOOSE i \in 1..Len(folders) : folders[i].folder = folder
  ELSE 0

\* folders[folder]['app_config'] = app_config_path, creating the entry if needed
PutAppConfig(folders, path) ==
  LET i == FolderIndex(folders, Parent(path))
  IN IF i = 0
     THEN Append(folders, [folder |-> Parent(path), app_config |-> path, dockerfiles |-> <<>>])
     ELSE [folders EXCEPT ![i].app_config = path]

\* a dockerfile that always opens a new entry for its folder
PutDockerfileNewEntry(folders, path) ==
  Append(folders, [folder |-> Parent(path), app_config |-> NonePath,
                   dockerfiles |-> <<path>>])

\* folders[folder]['dockerfiles'].append(dockerfile_path), creating the entry if needed
PutDockerfile(folders, path) ==
  LET i == FolderIndex(folders, Parent(path))
  IN IF i = 0
     THEN Append(folders, [folder |-> Parent(path), app_config |-> NonePath,
                           dockerfiles |-> <<path>>])
     ELSE [folders EXCEPT ![i].dockerfiles = Append(@, path)]

RECURSIVE GroupAppConfigs(_, _, _)
GroupAppConfigs(paths, i, folders) ==
  IF i > Len(paths) THEN folders
  ELSE GroupAppConfigs(paths, i + 1, PutAppConfig(folders, paths[i]))

RECURSIVE GroupDockerfiles(_, _, _)
GroupDockerfiles(paths, i, folders) ==
  IF i > Len(paths) THEN folders
  ELSE GroupDockerfiles(paths, i + 1, PutDockerfile(folders, paths[i]))

\* the dockerfile_info record of build_unified_inventory
DockerfileInfo(dockerfile_path) ==
  [ path |-> PathStr(dockerfile_path),
    name |-> BaseName(dockerfile_path),
    suffix |-> SuffixOf(BaseName(dockerfile_path)) ]

\* the app name when the fallback keeps the folder name as it is
InventoryAppNameRaw(files, cont) ==
  LET declared == IF files.app_config # NonePath
                  THEN ExtractAppNameFromYaml(files.app_config, cont)
                  ELSE NoneVal
  IN IF Truthy(declared) THEN declared
     ELSE IF files.folder = <<>> THEN RootName
     ELSE BaseName(files.folder)

\* the app name build_unified_inventory gives a folder
InventoryAppName(files, cont) ==
  LET declared == IF files.app_config # NonePath
                  THEN ExtractAppNameFromYaml(files.app_config, cont)
                  ELSE NoneVal
  IN IF Truthy(declared) THEN declared
     ELSE IF files.folder = <<>> THEN NormalizeAzureName(RootName)
     ELSE NormalizeAzureName(BaseName(files.folder))

\* the inventory entry of one folder
InventoryEntry(files, cont) ==
  [ path |-> PathStr(files.folder),
    app_name |-> InventoryAppName(files, cont),
    app_config |-> IF files.app_config # NonePath THEN PathStr(files.app_config)
                   ELSE NoneVal,
    dockerfiles |-> [k \in 1..Len(files.dockerfiles) |->
                       DockerfileInfo(files.dockerfiles[k])] ]

\* build_unified_inventory : the inventory in insertion order
BuildUnifiedInventory(disc, inc, exc, cont) ==
  LET folders == GroupDockerfiles(disc.dockerfiles, 1,
                   GroupAppConfigs(disc.app_configs, 1, <<>>))
      kept == SelectSeq(folders, LAMBDA files :
                (files.app_config # NonePath \/ files.dockerfiles # <<>>)
                /\ ShouldIncludePath(files.folder, inc, exc))
  IN [i \in 1..Len(kept) |-> InventoryEntry(kept[i], cont)]

\* folder_has_changes matching the whole subtree of the folder
FolderHasChangesSubtree(folder, changed) ==
  \E changed_file \in changed :
    Len(changed_file) > Len(folder) /\ SubSeq(changed_file, 1, Len(folder)) = folder

\* folder_has_changes
FolderHasChanges(folder, changed) == \E changed_file \in changed : Parent(changed_file) = folder

\* container_name of generate_matrix_output and analyze_deletions
ContainerName(base_name, suffix) ==
  ToLower(IF suffix = <<>> THEN base_name ELSE base_name \o <<"-">> \o suffix)

\* app_item that loses the configuration path
AppItemWithoutConfig(folder_data) ==
  [ path |-> folder_data.path, app_name |-> folder_data.app_name,
    app_config |-> NoneVal ]

\* app_item of generate_matrix_output
AppItem(folder_data) ==
  [ path |-> folder_data.path, app_name |-> folder_data.app_name,
    app_config |-> folder_data.app_config ]

\* container_item of generate_matrix_output
ContainerItem(folder_data, dockerfile, texts) ==
  [ path |-> folder_data.path,
    context |-> GetDockerfileContext(ParsePath(dockerfile.path), texts),
    app_name |-> folder_data.app_name,
    dockerfile |-> dockerfile,
    container_name |-> ContainerName(folder_data.app_name, dockerfile.suffix) ]

\* has_changes that counts only changed configuration files
HasChangesConfigOnly(folder_data, changed) ==
  \E changed_file \in changed :
    /\ Parent(changed_file) = ParsePath(folder_data.path)
    /\ IsAppConfigName(BaseName(changed_file))

\* has_changes of one inventory entry
HasChanges(folder_data, changed) == FolderHasChanges(ParsePath(folder_data.path), changed)

\* the loop appending to updated_apps outside the app_config test
RECURSIVE AppsFromAnyFolder(_, _, _, _)
AppsFromAnyFolder(inv, i, changed, onlyUpdated) ==
  IF i > Len(inv) THEN <<>>
  ELSE (IF (onlyUpdated /\ HasChanges(inv[i], changed))
           \/ (~onlyUpdated /\ Truthy(inv[i].app_config))
        THEN <<[ path |-> inv[i].path, app_name |-> inv[i].app_name,
                 app_config |-> inv[i].app_config ]>> ELSE <<>>)
       \o AppsFromAnyFolder(inv, i + 1, changed, onlyUpdated)

\* the apps the loop of generate_matrix_output appends from entry i on;
\* onlyUpdated selects updated_apps instead of all_apps
RECURSIVE AppsFrom(_, _, _, _)
AppsFrom(inv, i, changed, onlyUpdated) ==
  IF i > Len(inv) THEN <<>>
  ELSE (IF Truthy(inv[i].app_config) /\ (~onlyUpdated \/ HasChanges(inv[i], changed))
        THEN <<AppItem(inv[i])>> ELSE <<>>)
       \o AppsFrom(inv, i + 1, changed, onlyUpdated)

\* the loop appending to updated_containers only the dockerfiles that changed
RECURSIVE ContainersFromChangedOnly(_, _, _, _, _)
ContainersFromChangedOnly(inv, i, changed, onlyUpdated, texts) ==
  IF i > Len(inv) THEN <<>>
  ELSE (IF ~onlyUpdated \/ HasChanges(inv[i], changed)
        THEN LET mine == SelectSeq(inv[i].dockerfiles,
                           LAMBDA d : ~onlyUpdated \/ ParsePath(d.path) \in changed)
             IN [k \in 1..Len(mine) |-> ContainerItem(inv[i], mine[k], texts)]
        ELSE <<>>)
       \o ContainersFromChangedOnly(inv, i + 1, changed, onlyUpdated, texts)

\* the containers the loop of generate_matrix_output appends from entry i on
RECURSIVE ContainersFrom(_, _, _, _, _)
ContainersFrom(inv, i, changed, onlyUpdated, texts) ==
  IF i > Len(inv) THEN <<>>
  ELSE (IF ~onlyUpdated \/ HasChanges(inv[i], changed)
        THEN [k \in 1..Len(inv[i].dockerfiles) |->
                ContainerItem(inv[i], inv[i].dockerfiles[k], texts)]
        ELSE <<>>)
       \o ContainersFrom(inv, i + 1, changed, onlyUpdated, texts)

\* (self.root_path / folder).exists()
FolderExists(folder, files) ==
  folder = <<>> \/ \E f \in files : Len(f) > Len(folder) /\ SubSeq(f, 1, Len(folder)) = folder

\* deleted_by_folder[folder][kind].append(deleted_file), creating the entry if needed
PutDeleted(by_folder, deleted_file) ==
  LET folder == Parent(deleted_file)
      filename == BaseName(deleted_file)
      i == FolderIndex(by_folder, folder)
      base == IF i = 0
              THEN Append(by_folder, [folder |-> folder, app_configs |-> <<>>,
                                      dockerfiles |-> <<>>])
              ELSE by_folder
      j == IF i = 0 THEN Len(base) ELSE i
  IN IF IsAppConfigName(filename)
       THEN [base EXCEPT ![j].app_configs = Append(@, deleted_file)]
     ELSE IF IsDockerfileName(filename)
       THEN [base EXCEPT ![j].dockerfiles = Append(@, deleted_file)]
     ELSE base

\* the grouping loop of analyze_deletions over the deleted files from i on
RECURSIVE GroupDeleted(_, _, _, _, _)
GroupDeleted(order, i, by_folder, inc, exc) ==
  IF i > Len(order) THEN by_folder
  ELSE IF ~ShouldIncludePath(order[i], inc, exc)
    THEN GroupDeleted(order, i + 1, by_folder, inc, exc)
  ELSE GroupDeleted(order, i + 1, PutDeleted(by_folder, order[i]), inc, exc)

\* app_name analyze_deletions gives the records of a folder
DeletedAppName(folder) ==
  IF folder = <<>> THEN NormalizeAzureName(RootName)
  ELSE NormalizeAzureName(BaseName(folder))

\* deleted_apps records of one folder when any deletion in it tears the unit down
DeletedAppsOfAnyDeletion(deleted_items, files) ==
  <<[ path |-> PathStr(deleted_items.folder),
      app_name |-> DeletedAppName(deleted_items.folder),
      app_config |-> IF deleted_items.app_configs # <<>>
                     THEN PathStr(deleted_items.app_configs[1])
                     ELSE PathStr(deleted_items.folder \o <<AppYaml>>) ]>>

\* deleted_apps records of one folder of deleted_by_folder
DeletedAppsOf(deleted_items, files) ==
  LET app_name == DeletedAppName(deleted_items.folder)
      folder_exists == FolderExists(deleted_items.folder, files)
  IN [k \in 1..Len(deleted_items.app_configs) |->
        [ path |-> PathStr(deleted_items.folder),
          app_name |-> app_name,
          app_config |-> PathStr(deleted_items.app_configs[k]) ]]

\* deleted_containers records of one folder of deleted_by_folder
DeletedContainersOf(deleted_items, files) ==
  LET app_name == DeletedAppName(deleted_items.folder)
  IN [k \in 1..Len(deleted_items.dockerfiles) |->
        [ app_name |-> app_name,
          container_name |->
            ContainerName(app_name, SuffixOf(BaseName(deleted_items.dockerfiles[k]))),
          dockerfile |-> PathStr(deleted_items.dockerfiles[k]) ]]

RECURSIVE DeletedAppsFrom(_, _, _)
DeletedAppsFrom(by_folder, i, files) ==
  IF i > Len(by_folder) THEN <<>>
  ELSE DeletedAppsOf(by_folder[i], files) \o DeletedAppsFrom(by_folder, i + 1, files)

RECURSIVE DeletedContainersFrom(_, _, _)
DeletedContainersFrom(by_folder, i, files) ==
  IF i > Len(by_folder) THEN <<>>
  ELSE DeletedContainersOf(by_folder[i], files)
       \o DeletedContainersFrom(by_folder, i + 1, files)

\* the commit SHA stamped on every deleted item, whatever its value
WithCommitShaAlways(items, sha) ==
  [k \in 1..Len(items) |-> [commit_sha |-> sha] @@ items[k]]

\* for item in ...: item['commit_sha'] = commit_sha, when commit_sha is truthy
WithCommitSha(items, sha) ==
  IF Truthy(sha)
  THEN [k \in 1..Len(items) |-> [commit_sha |-> sha] @@ items[k]]
  ELSE items

\* the dict generate_matrix_output returns
MatrixOf(upd_apps, apps, del_apps, upd_cont, cont, del_cont, ref) ==
  [ apps |-> [ updated |-> upd_apps, all |-> apps, deleted |-> del_apps,
               has_updates |-> Len(upd_apps) > 0,
               has_deletions |-> Len(del_apps) > 0 ],
    containers |-> [ updated |-> upd_cont, all |-> cont, deleted |-> del_cont,
                     has_updates |-> Len(upd_cont) > 0,
                     has_deletions |-> Len(del_cont) > 0 ],
    ref |-> ref ]

NoMatrix == [ref |-> NoneVal]

\* ------------------------------------------------------------------------
\* Initial states
\* ------------------------------------------------------------------------
\* the analyzer right after __init__, before generate_matrix_output
FreshAnalyzer ==
  /\ changed_files = {}
  /\ deleted_files = {}
  /\ renamed_files = EmptyFun
  /\ ref_name = NoneVal
  /\ commit_sha = NoneVal
  /\ discovered = [app_configs |-> <<>>, dockerfiles |-> <<>>]
  /\ inventory = <<>>
  /\ all_apps = <<>> /\ updated_apps = <<>>
  /\ all_containers = <<>> /\ updated_containers = <<>>
  /\ deleted_apps = <<>> /\ deleted_containers = <<>>
  /\ matrix = NoMatrix
  /\ git_calls = <<>>
  /\ calls = 1
  /\ prev_matrix = NoMatrix

\* a build-definition file without and with a context directive
PlainText == << <<"F","R","O","M">> >>
DirectiveText == << <<"F","R","O","M">>, ContextDirective \o <<" ","c","t","x">> >>

\* the text of a build-definition file of the bounded world
TextOf(f) == IF Parent(f) = FolderT THEN DirectiveText ELSE PlainText

\* outcomes <<rev-parse exits zero, diff exits zero>> of the git commands
GitOutcomes(ev) ==
  IF ev = "workflow_dispatch" THEN { <<TRUE, TRUE>> }
  ELSE IF ev = "pull_request" THEN { <<TRUE, TRUE>> }
  ELSE { <<TRUE, TRUE>>, <<FALSE, TRUE>>, <<FALSE, FALSE>> }

\* a working tree and the diff that git reports for it: every candidate file
\* involved is unchanged, modified, deleted or the destination of a rename;
\* deleted files and rename sources are not on disk
Init ==
  /\ \E S \in SUBSET CandFiles :
       /\ Cardinality(S) <= MaxFiles
       /\ \E st \in [S -> AllStatuses] :
            LET renamedTo == {f \in S : st[f] = "R"}
                configs == {f \in S : OnDisk(st[f]) /\ IsAppConfigName(BaseName(f))}
                dockers == {f \in S : OnDisk(st[f]) /\ ~IsAppConfigName(BaseName(f))
                                      /\ IsDockerfileName(BaseName(f))}
            IN /\ \A f \in S : st[f] \in Statuses(f)
               /\ tree = {f \in S : OnDisk(st[f])}
               /\ dockerText = [f \in dockers |-> TextOf(f)]
               /\ content \in [configs -> Contents]
               /\ \E old \in [renamedTo -> UNION {OldCands(f) : f \in renamedTo}] :
                    /\ \A f \in renamedTo : old[f] \in OldCands(f) /\ old[f] \notin S
                    /\ \A f, g \in renamedTo : old[f] = old[g] => f = g
                    /\ diffOut = DiffOf(S, st, old)
  /\ \E pats \in PatternPairs :
       /\ include_arg = pats[1]
       /\ include_pattern = NormalizePattern(pats[1])
       /\ exclude_pattern = pats[2]
  /\ event \in Events
  /\ \E g \in GitOutcomes(event) : revParseOk = g[1] /\ diffOk = g[2]
  /\ pc = "start"
  /\ FreshAnalyzer
  /\ nx = <<>> /\ ny = <<>>

\* ------------------------------------------------------------------------
\* generate_matrix_output, step by step
\* ------------------------------------------------------------------------
\* get_changed_files adding to the collections of the instance instead of
\* replacing them
GetChangedFilesAccumulating ==
  /\ pc = "start"
  /\ LET ref == GetComparisonRef(event, revParseOk)
         res == IF ref[1] = <<>> THEN EmptyChanges
                ELSE ParseDiff(diffOut, 1, EmptyChanges)
     IN /\ ref[1] = <<>> \/ diffOk
        /\ changed_files' = changed_files \cup res.changed
        /\ deleted_files' = deleted_files \cup res.deleted
        /\ renamed_files' = res.renamed @@ renamed_files
        /\ git_calls' = git_calls \o CommandsOfRef(event) \o CommandsOfDiff(ref[1])
  /\ pc' = "ref"
  /\ UNCHANGED <<envVars, refVars, discovered, inventory, outVars, delVars, matrix, normVars,
                 callVars>>

\* get_changed_files : the diff is not asked for without a reference
GetChangedFiles ==
  /\ pc = "start"
  /\ LET ref == GetComparisonRef(event, revParseOk)
         res == IF ref[1] = <<>> THEN EmptyChanges
                ELSE ParseDiff(diffOut, 1, EmptyChanges)
     IN /\ ref[1] = <<>> \/ diffOk
        /\ changed_files' = res.changed
        /\ deleted_files' = res.deleted
        /\ renamed_files' = res.renamed
        /\ git_calls' = git_calls \o CommandsOfRef(event) \o CommandsOfDiff(ref[1])
  /\ pc' = "ref"
  /\ UNCHANGED <<envVars, refVars, discovered, inventory, outVars, delVars, matrix, normVars,
                 callVars>>

\* a failing git diff after which the run goes on with empty collections
GitDiffFailsContinuing ==
  /\ pc = "start"
  /\ GetComparisonRef(event, revParseOk)[1] # <<>>
  /\ ~diffOk
  /\ git_calls' = git_calls \o CommandsOfRef(event)
                   \o CommandsOfDiff(GetComparisonRef(event, revParseOk)[1])
  /\ pc' = "ref"
  /\ UNCHANGED <<envVars, gitVars, refVars, discovered, inventory, outVars, delVars,
                 matrix, normVars, callVars>>

\* run_git_command on a failing git diff : sys.exit(1)
GitDiffFails ==
  /\ pc = "start"
  /\ GetComparisonRef(event, revParseOk)[1] # <<>>
  /\ ~diffOk
  /\ git_calls' = git_calls \o CommandsOfRef(event)
                   \o CommandsOfDiff(GetComparisonRef(event, revParseOk)[1])
  /\ pc' = "failed"
  /\ UNCHANGED <<envVars, gitVars, refVars, discovered, inventory, outVars, delVars,
                 matrix, normVars,
                 callVars>>

\* ref_name, commit_sha = self.get_comparison_ref()
ResolveRef ==
  /\ pc = "ref"
  /\ ref_name' = GetComparisonRef(event, revParseOk)[1]
  /\ commit_sha' = GetComparisonRef(event, revParseOk)[2]
  /\ git_calls' = git_calls \o CommandsOfRef(event)
  /\ pc' = "discover"
  /\ UNCHANGED <<envVars, gitVars, discovered, inventory, outVars, delVars, matrix, normVars,
                 callVars>>

\* discover_files : the walk yields the files in any order
DiscoverFiles ==
  /\ pc = "discover"
  /\ \E walk \in Orderings(tree) : discovered' = DiscoverFilesIn(walk)
  /\ pc' = "inventory"
  /\ UNCHANGED <<envVars, gitVars, refVars, inventory, outVars, delVars, matrix, normVars,
                 git_calls, callVars>>

\* inventory = self.build_unified_inventory(discovered)
BuildInventory ==
  /\ pc = "inventory"
  /\ inventory' = BuildUnifiedInventory(discovered, include_pattern, exclude_pattern, content)
  /\ pc' = "process"
  /\ UNCHANGED <<envVars, gitVars, refVars, discovered, outVars, delVars, matrix, normVars,
                 git_calls, callVars>>

\* the loop over inventory.items()
ProcessInventory ==
  /\ pc = "process"
  /\ all_apps' = AppsFrom(inventory, 1, changed_files, FALSE)
  /\ updated_apps' = AppsFrom(inventory, 1, changed_files, TRUE)
  /\ all_containers' = ContainersFrom(inventory, 1, changed_files, FALSE, dockerText)
  /\ updated_containers' = ContainersFrom(inventory, 1, changed_files, TRUE, dockerText)
  /\ pc' = "deletions"
  /\ UNCHANGED <<envVars, gitVars, refVars, discovered, inventory, delVars, matrix, normVars,
                 git_calls, callVars>>

\* analyze_deletions : the set of deleted files is iterated in any order
AnalyzeDeletions ==
  /\ pc = "deletions"
  /\ \E order \in Orderings(deleted_files) :
       LET by_folder == GroupDeleted(order, 1, <<>>, include_pattern, exclude_pattern)
       IN /\ deleted_apps' = DeletedAppsFrom(by_folder, 1, tree)
          /\ deleted_containers' = DeletedContainersFrom(by_folder, 1, tree)
  /\ pc' = "emit"
  /\ UNCHANGED <<envVars, gitVars, refVars, discovered, inventory, outVars, matrix, normVars,
                 git_calls, callVars>>

\* the commit SHA is added to the deleted items and the matrix is returned
Emit ==
  /\ pc = "emit"
  /\ deleted_apps' = WithCommitSha(deleted_apps, commit_sha)
  /\ deleted_containers' = WithCommitSha(deleted_containers, commit_sha)
  /\ matrix' = MatrixOf(updated_apps, all_apps, deleted_apps',
                        updated_containers, all_containers, deleted_containers',
                        ref_name)
  /\ pc' = "done"
  /\ UNCHANGED <<envVars, gitVars, refVars, discovered, inventory, outVars, normVars,
                 git_calls, callVars>>

Next ==
  \/ GetChangedFiles
  \/ GitDiffFails
  \/ ResolveRef
  \/ DiscoverFiles
  \/ BuildInventory
  \/ ProcessInventory
  \/ AnalyzeDeletions
  \/ Emit

Spec == Init /\ [][Next]_vars

\* ------------------------------------------------------------------------
\* _normalize_azure_name on its own, over every string of a bounded alphabet
\* ------------------------------------------------------------------------
NormAlphabet == {"a", "B", "1", "-", "_", "."}

NormInputs == UNION {[1..n -> NormAlphabet] : n \in 0..MaxLen}

InitNorm ==
  /\ nx \in NormInputs
  /\ ny = <<>>
  /\ pc = "norm0"
  /\ tree = {} /\ content = EmptyFun /\ dockerText = EmptyFun
  /\ event = "push" /\ revParseOk = TRUE /\ diffOk = TRUE /\ diffOut = <<>>
  /\ include_arg = <<>> /\ include_pattern = <<>> /\ exclude_pattern = <<>>
  /\ FreshAnalyzer

\* name = self._normalize_azure_name(name), on the argument and then on the result
NormalizeStep ==
  /\ pc \in {"norm0", "norm1"}
  /\ ny' = Append(ny, NormalizeAzureName(IF ny = <<>> THEN nx ELSE ny[Len(ny)]))
  /\ pc' = IF pc = "norm0" THEN "norm1" ELSE "norm2"
  /\ UNCHANGED <<envVars, gitVars, refVars, discovered, inventory, outVars, delVars,
                 matrix, nx,
                 git_calls, callVars>>

NextNorm == NormalizeStep

SpecNorm == InitNorm /\ [][NextNorm]_vars

\* ------------------------------------------------------------------------
\* Scenario A: two units under apps/, one changed through its configuration
\* file and one through its build-definition file
\* ------------------------------------------------------------------------
Frontend == <<"f","r","o","n","t","e","n","d">>
Backend == <<"b","a","c","k","e","n","d">>
FolderFrontend == << <<"a","p","p","s">>, Frontend >>
FolderBackend == << <<"a","p","p","s">>, Backend >>

ScenarioTree ==
  { FolderFrontend \o <<AppYaml>>, FolderFrontend \o <<Dockerfile>>,
    FolderBackend \o <<AppYaml>>, FolderBackend \o <<Dockerfile>> }

\* the paths the change set reports as modified
ScenarioModified == { FolderFrontend \o <<AppYaml>>, FolderBackend \o <<Dockerfile>> }

\* constructor arguments that keep both units
PatApps == <<"a","p","p","s","/","*">>
ScenarioPatterns == { <<<<>>, <<>>>>, <<PatApps, <<>>>>, <<<<".">>, PatT>> }

\* the tree and the change set of the scenario; the diff lists the two
\* modified paths in either order, the event is a push or a pull request
InitA ==
  /\ tree = ScenarioTree
  /\ content = [f \in {g \in ScenarioTree : IsAppConfigName(BaseName(g))} |->
                  IF Parent(f) = FolderFrontend THEN Frontend ELSE Backend]
  /\ dockerText = [f \in {g \in ScenarioTree : IsDockerfileName(BaseName(g))} |->
                     PlainText]
  /\ \E q \in Orderings(ScenarioModified) :
       diffOut = [i \in 1..Len(q) |-> DiffLine("M", <<q[i]>>)]
  /\ \E pats \in ScenarioPatterns :
       /\ include_arg = pats[1]
       /\ include_pattern = NormalizePattern(pats[1])
       /\ exclude_pattern = pats[2]
  /\ event \in {"push", "pull_request"}
  /\ \E g \in GitOutcomes(event) : revParseOk = g[1] /\ diffOk = g[2]
  /\ pc = "start"
  /\ FreshAnalyzer
  /\ nx = <<>> /\ ny = <<>>

SpecA == InitA /\ [][Next]_vars

\* ------------------------------------------------------------------------
\* get_changed_files on arbitrary diff output: every sequence of records over
\* a few statuses and paths, records with missing fields included
\* ------------------------------------------------------------------------
ParseStatuses == {"D", "A", "M", "R", RenameStatus, "T"}
ParsePathSet == { FolderX \o <<AppYaml>>, FolderX \o <<Dockerfile>> }

\* the fields after the status: none, one path, or two paths
ParseFields ==
  { <<>> } \cup { <<p>> : p \in ParsePathSet }
           \cup { <<p, q>> : p \in ParsePathSet, q \in ParsePathSet }

ParseRecords == { DiffLine(status, paths) : status \in ParseStatuses, paths \in ParseFields }

InitParse ==
  /\ tree = {} /\ content = EmptyFun /\ dockerText = EmptyFun
  /\ diffOut \in UNION { [1..n -> ParseRecords] : n \in 0..MaxRecords }
  /\ include_arg = <<>> /\ include_pattern = <<>> /\ exclude_pattern = <<>>
  /\ event = "push"
  /\ \E g \in { <<TRUE, TRUE>>, <<FALSE, FALSE>> } : revParseOk = g[1] /\ diffOk = g[2]
  /\ pc = "start"
  /\ FreshAnalyzer
  /\ nx = <<>> /\ ny = <<>>

SpecParse == InitParse /\ [][Next]_vars

\* ------------------------------------------------------------------------
\* generate_matrix_output called again on the same instance, the working
\* tree, the diff and the event having changed in between
\* ------------------------------------------------------------------------
RerunConfig == FolderX \o <<AppYaml>>
RerunDockerfile == FolderX \o <<Dockerfile>>

\* working trees with the diff git reports for them
RerunTrees ==
  { [tree |-> {RerunConfig, RerunDockerfile}, diffOut |-> <<DiffLine("M", <<RerunConfig>>)>>],
    [tree |-> {RerunConfig}, diffOut |-> <<DiffLine("D", <<RerunDockerfile>>)>>],
    [tree |-> {}, diffOut |-> <<DiffLine("D", <<RerunConfig>>),
                                DiffLine("D", <<RerunDockerfile>>)>>],
    [tree |-> {RerunConfig, RerunDockerfile}, diffOut |-> <<>>] }

\* the environment of one call
RerunWorld(w, ev, g) ==
  [ tree |-> w.tree, diffOut |-> w.diffOut,
    content |-> [f \in {h \in w.tree : IsAppConfigName(BaseName(h))} |-> <<"p">>],
    dockerText |-> [f \in {h \in w.tree : IsDockerfileName(BaseName(h))} |-> PlainText],
    event |-> ev, revParseOk |-> g[1], diffOk |-> g[2] ]

RerunWorlds ==
  { RerunWorld(w, ev, g) : w \in RerunTrees, ev \in {"push", "workflow_dispatch"},
                           g \in {<<TRUE, TRUE>>, <<FALSE, FALSE>>} }

InitRerun ==
  /\ \E w \in RerunWorlds :
       /\ tree = w.tree /\ content = w.content /\ dockerText = w.dockerText
       /\ diffOut = w.diffOut /\ event = w.event
       /\ revParseOk = w.revParseOk /\ diffOk = w.diffOk
  /\ include_arg = <<>> /\ include_pattern = <<>> /\ exclude_pattern = <<>>
  /\ pc = "start"
  /\ FreshAnalyzer
  /\ nx = <<>> /\ ny = <<>>

\* the caller keeps the returned matrix and calls generate_matrix_output
\* again: the locals of the new call are fresh, the attributes of the
\* instance are what the previous call left
CallAgain ==
  /\ pc = "done"
  /\ calls < MaxRuns
  /\ calls' = calls + 1
  /\ prev_matrix' = matrix
  /\ \E w \in RerunWorlds :
       /\ tree' = w.tree /\ content' = w.content /\ dockerText' = w.dockerText
       /\ diffOut' = w.diffOut /\ event' = w.event
       /\ revParseOk' = w.revParseOk /\ diffOk' = w.diffOk
  /\ ref_name' = NoneVal /\ commit_sha' = NoneVal
  /\ discovered' = [app_configs |-> <<>>, dockerfiles |-> <<>>]
  /\ inventory' = <<>>
  /\ all_apps' = <<>> /\ updated_apps' = <<>>
  /\ all_containers' = <<>> /\ updated_containers' = <<>>
  /\ deleted_apps' = <<>> /\ deleted_containers' = <<>>
  /\ matrix' = NoMatrix
  /\ git_calls' = <<>>
  /\ pc' = "start"
  /\ UNCHANGED <<include_arg, include_pattern, exclude_pattern, gitVars, normVars>>

NextRerun ==
  \/ GetChangedFiles
  \/ GitDiffFails
  \/ ResolveRef
  \/ DiscoverFiles
  \/ BuildInventory
  \/ ProcessInventory
  \/ AnalyzeDeletions
  \/ Emit
  \/ CallAgain

SpecRerun == InitRerun /\ [][NextRerun]_vars

\* ------------------------------------------------------------------------
\* Build-definition files of up to MaxLines lines with context directives
\* at chosen lines, readable or not
\* ------------------------------------------------------------------------
CtxDockerfile == FolderX \o <<Dockerfile>>
CtxDockerfileAuth == FolderX \o <<DockerfileDot \o <<"a","u","t","h">>>>

\* lines of a build-definition file: an instruction, a comment that is not a
\* directive, a directive, and an indented directive naming another path
CtxPlain == <<"F","R","O","M">>
CtxNearMiss == <<"#","@","c","o","n","t","e","x","t",":"," ","r">>
CtxFirst == ContextDirective \o <<" ","p"," ">>
CtxSecond == <<" ">> \o ContextDirective \o <<"q">>

\* the texts of n lines with no directive, one directive at line a, or two
\* directives at lines a < b, the other lines being all alike
CtxTexts ==
  { [i \in 1..n |-> IF i = ab[1] THEN CtxFirst
                    ELSE IF i = ab[2] THEN CtxSecond ELSE filler] :
      n \in 0..MaxLines,
      ab \in {x \in (0..MaxLines) \X (0..MaxLines) : x[1] < x[2] \/ x = <<0, 0>> \/ x[2] = 0},
      filler \in {CtxPlain, CtxNearMiss} }

\* a text whose only directive is on its last line, after MaxLines - 1
\* instructions
CtxLateText == [i \in 1..MaxLines |-> IF i = MaxLines THEN CtxSecond ELSE CtxPlain]

\* open() fails for a file that is not in the domain of dockerText
InitCtx ==
  /\ \E withAuth, readMain, readAuth \in BOOLEAN, main \in CtxTexts :
       /\ readAuth => withAuth
       /\ ~readMain => main = <<>>
       /\ tree = {CtxDockerfile} \cup (IF withAuth THEN {CtxDockerfileAuth} ELSE {})
       /\ dockerText =
            [f \in (IF readMain THEN {CtxDockerfile} ELSE {})
                   \cup (IF readAuth THEN {CtxDockerfileAuth} ELSE {}) |->
               IF f = CtxDockerfile THEN main ELSE CtxLateText]
  /\ content = EmptyFun
  /\ diffOut = <<DiffLine("M", <<CtxDockerfile>>)>>
  /\ include_arg = <<>> /\ include_pattern = <<>> /\ exclude_pattern = <<>>
  /\ event = "push"
  /\ \E g \in { <<TRUE, TRUE>>, <<FALSE, FALSE>> } : revParseOk = g[1] /\ diffOk = g[2]
  /\ pc = "start"
  /\ FreshAnalyzer
  /\ nx = <<>> /\ ny = <<>>

SpecCtx == InitCtx /\ [][Next]_vars

\* ------------------------------------------------------------------------
\* One folder with build-definition files of unusual names, patterns that
\* name the folder itself, and a deleted file
\* ------------------------------------------------------------------------
SecureApi == <<"s","e","c","u","r","e","-","a","p","i">>
EdgeConfig == FolderX \o <<AppYaml>>

\* recognized build-definition file names (filename == 'Dockerfile' or
\* filename.startswith('Dockerfile.'))
EdgeNames ==
  { Dockerfile,
    DockerfileDot \o <<"a","u","t","h">>,
    DockerfileDot \o <<"b">>,
    DockerfileDot \o <<"B">>,
    DockerfileDot,
    DockerfileDot \o DockerfileDot \o <<"b">> }

EdgeDockerfiles == { FolderX \o <<n>> : n \in EdgeNames }

\* include/exclude pairs whose pattern is the path of the folder
PatX == <<"a","/","x">>
EdgePatterns == { <<<<>>, <<>>>>, <<PatX, <<>>>>, <<<<>>, PatX>> }

\* at most MaxDockerfiles build-definition files are on disk and at most one
\* recognized file has been deleted; the configuration declares secure-api
InitEdge ==
  /\ \E onDisk \in SUBSET (EdgeDockerfiles \cup {EdgeConfig}),
        gone \in SUBSET (EdgeDockerfiles \cup {EdgeConfig}) :
       /\ Cardinality(onDisk \cap EdgeDockerfiles) <= MaxDockerfiles
       /\ Cardinality(gone) <= 1
       /\ onDisk \cap gone = {}
       /\ tree = onDisk
       /\ content = [f \in onDisk \cap {EdgeConfig} |-> SecureApi]
       /\ dockerText = [f \in onDisk \cap EdgeDockerfiles |-> PlainText]
       /\ diffOut = [i \in 1..Cardinality(gone) |-> DiffLine("D", <<SetToSeq(gone)[i]>>)]
  /\ \E pats \in EdgePatterns :
       /\ include_arg = pats[1]
       /\ include_pattern = NormalizePattern(pats[1])
       /\ exclude_pattern = pats[2]
  /\ event = "push"
  /\ \E g \in { <<TRUE, TRUE>>, <<FALSE, FALSE>> } : revParseOk = g[1] /\ diffOk = g[2]
  /\ pc = "start"
  /\ FreshAnalyzer
  /\ nx = <<>> /\ ny = <<>>

SpecEdge == InitEdge /\ [][Next]_vars

\* ------------------------------------------------------------------------
\* What a run is given, read off the working tree and the diff
\* ------------------------------------------------------------------------
Range(q) == {q[i] : i \in 1..Len(q)}

\* a comparison reference exists (every event but the manual trigger)
HasReference == event # "workflow_dispatch"

\* the added/modified collection as get_changed_files builds it: the paths of
\* the A and M records and the destinations of the records of status R
DiffAddedModified ==
  IF HasReference
  THEN {l.paths[1] : l \in {m \in Range(diffOut) : m.status \in {"A", "M"}}}
       \cup {l.paths[2] : l \in {m \in Range(diffOut) : m.status = "R"}}
  ELSE {}

\* the deleted collection of the change set
DiffDeleted ==
  IF HasReference
  THEN {l.paths[1] : l \in {m \in Range(diffOut) : m.status = "D"}}
  ELSE {}

\* a path satisfies the include pattern (if present) and not the exclude
\* pattern (if present)
PassesFilter(path) ==
  /\ include_pattern = <<>> \/ FnMatch(PathStr(path), include_pattern)
  /\ exclude_pattern = <<>> \/ ~FnMatch(PathStr(path), exclude_pattern)

ConfigsOnDisk == {f \in tree : IsAppConfigName(BaseName(f))}
DockerfilesOnDisk == {f \in tree : IsDockerfileName(BaseName(f))}

\* folders holding a recognized file, and those the filter keeps
UnitFolders == {Parent(f) : f \in ConfigsOnDisk \cup DockerfilesOnDisk}
KeptUnits == {F \in UnitFolders : PassesFilter(F)}
KeptConfigUnits == {F \in KeptUnits : \E f \in ConfigsOnDisk : Parent(f) = F}
KeptDockerfiles == {f \in DockerfilesOnDisk : PassesFilter(Parent(f))}

\* the deleted collection after include/exclude filtering, and its parts
FilteredDeleted == {p \in DiffDeleted : PassesFilter(p)}
DeletionFolders == {Parent(p) : p \in FilteredDeleted}
DeletedConfigsOf(F) == {p \in FilteredDeleted : Parent(p) = F /\ IsAppConfigName(BaseName(p))}
DeletedDockerfilesOf(F) ==
  {p \in FilteredDeleted : Parent(p) = F /\ IsDockerfileName(BaseName(p))}

\* positions of the records of the emitted matrix that concern a folder or a file
UpdatedAppsAt(F) ==
  {k \in 1..Len(matrix.apps.updated) : matrix.apps.updated[k].path = PathStr(F)}
UnitDeletionsFor(F) ==
  {k \in 1..Len(matrix.apps.deleted) : matrix.apps.deleted[k].path = PathStr(F)}
ArtifactDeletionsFor(p) ==
  {k \in 1..Len(matrix.containers.deleted) :
     matrix.containers.deleted[k].dockerfile = PathStr(p)}
ArtifactDeletionsIn(F) ==
  {k \in 1..Len(matrix.containers.deleted) :
     Parent(ParsePath(matrix.containers.deleted[k].dockerfile)) = F}

\* F is a proper ancestor of path p's parent
NestedBelow(p, F) ==
  Len(Parent(p)) > Len(F) /\ SubSeq(Parent(p), 1, Len(F)) = F

\* the identifier constraint: [a-z0-9-], no '-' at either end, no '--'
ValidIdentifier(s) ==
  /\ \A i \in 1..Len(s) : s[i] \in Allowed
  /\ s # <<>> => s[1] # "-" /\ s[Len(s)] # "-"
  /\ \A i \in 1..(Len(s) - 1) : ~(s[i] = "-" /\ s[i + 1] = "-")

\* baseName alone, or baseName + "-" + suffix
Composed(base, suffix) == IF suffix = <<>> THEN base ELSE base \o <<"-">> \o suffix

\* the folder-derived name of a folder
FolderDerivedName(F) ==
  IF F = <<>> THEN NormalizeAzureName(RootName) ELSE NormalizeAzureName(BaseName(F))

\* the names declared by the readable configuration files of a folder
DeclaredIn(F) ==
  {content[c] : c \in {d \in DOMAIN content : Parent(d) = F /\ Truthy(content[d])}}

C2_UpdatedSubsetOfAll ==
  pc = "done" =>
    /\ Range(matrix.apps.updated) \subseteq Range(matrix.apps.all)
    /\ Range(matrix.containers.updated) \subseteq Range(matrix.containers.all)

\* a matrix with an updated app and an updated container
C2_Witness ==
  /\ pc = "done"
  /\ matrix.apps.updated # <<>>
  /\ matrix.containers.updated # <<>>

\* C3: a folder with a path in the filtered deleted collection that no longer
\* exists on disk gets exactly one Unit deletion record, whose configPath is
\* the deleted configuration path if one was observed and <folder>/app.yaml
\* otherwise, and exactly one Artifact deletion record per deleted
\* build-definition file.  Stated for the folders that lost a configuration
\* or build-definition file.
C3_WholeFolderDeletion ==
  pc = "done" =>
    \A F \in DeletionFolders :
      (~FolderExists(F, tree) /\ DeletedConfigsOf(F) \cup DeletedDockerfilesOf(F) # {}) =>
        /\ Cardinality(UnitDeletionsFor(F)) = 1
        /\ \A k \in UnitDeletionsFor(F) :
             IF DeletedConfigsOf(F) # {}
             THEN \E c \in DeletedConfigsOf(F) :
                    matrix.apps.deleted[k].app_config = PathStr(c)
             ELSE matrix.apps.deleted[k].app_config = PathStr(F \o <<AppYaml>>)
        /\ \A p \in DeletedDockerfilesOf(F) : Cardinality(ArtifactDeletionsFor(p)) = 1

\* C4: a folder that still exists and has configuration files among the
\* deleted paths gets exactly one Unit deletion record, with a deleted
\* configuration path as configPath, and no Artifact deletion record when no
\* build-definition file of it was deleted.
C4_ConfigOnlyDeletion ==
  pc = "done" =>
    \A F \in DeletionFolders :
      (FolderExists(F, tree) /\ DeletedConfigsOf(F) # {}) =>
        /\ Cardinality(UnitDeletionsFor(F)) = 1
        /\ \A k \in UnitDeletionsFor(F) :
             \E c \in DeletedConfigsOf(F) : matrix.apps.deleted[k].app_config = PathStr(c)
        /\ DeletedDockerfilesOf(F) = {} => ArtifactDeletionsIn(F) = {}

\* C5: a Unit deletion record is emitted for a folder only if the folder no
\* longer exists on disk or one of its configuration files is in the deleted
\* collection; a folder that still exists and lost only build-definition
\* files gets exactly one Artifact deletion record per deleted
\* build-definition file and no Unit deletion record.  The deleted collection
\* is the one the classifier is handed, after include/exclude filtering.
C5_ArtifactOnlyDeletion ==
  pc = "done" =>
    /\ \A k \in 1..Len(matrix.apps.deleted) :
         LET F == ParsePath(matrix.apps.deleted[k].path)
         IN ~FolderExists(F, tree) \/ DeletedConfigsOf(F) # {}
    /\ \A F \in DeletionFolders :
         (FolderExists(F, tree) /\ DeletedConfigsOf(F) = {}) =>
           /\ UnitDeletionsFor(F) = {}
           /\ \A p \in DeletedDockerfilesOf(F) : Cardinality(ArtifactDeletionsFor(p)) = 1

\* a folder that still exists, lost a build-definition file and no
\* configuration file, with the Artifact deletion record emitted
C5_Witness ==
  /\ pc = "done"
  /\ \E F \in DeletionFolders :
       /\ FolderExists(F, tree)
       /\ F # <<>>
       /\ DeletedConfigsOf(F) = {}
       /\ DeletedDockerfilesOf(F) # {}
       /\ ArtifactDeletionsIn(F) # {}

\* C6: the containerName of an Artifact deletion record is built from the
\* declared name when the unit's configuration file still exists, is readable
\* and declares a name (the name the file had in containers.all while live),
\* and from the normalized folder name otherwise.
C6_DeletedContainerUsesDeclaredName ==
  pc = "done" =>
    \A k \in 1..Len(matrix.containers.deleted) :
      LET r == matrix.containers.deleted[k]
          p == ParsePath(r.dockerfile)
          F == Parent(p)
          suffix == SuffixOf(BaseName(p))
      IN IF DeclaredIn(F) # {}
         THEN \E n \in DeclaredIn(F) : r.container_name = ToLower(Composed(n, suffix))
         ELSE r.container_name = ToLower(Composed(FolderDerivedName(F), suffix))

\* C7: the containerName of every live container record is
\* normalize(appName) for an empty suffix and normalize(appName + "-" + suffix)
\* otherwise, the full normalization applied to the whole concatenation.
C7_ContainerNameNormalized ==
  pc = "done" =>
    \A r \in Range(matrix.containers.all) \cup Range(matrix.containers.updated) :
      r.container_name = NormalizeAzureName(Composed(r.app_name, r.dockerfile.suffix))

\* C8: every appName and containerName of the emitted matrix satisfies the
\* identifier constraint.
C8_NamesAreValidIdentifiers ==
  pc = "done" =>
    /\ \A r \in Range(matrix.apps.updated) \cup Range(matrix.apps.all)
                \cup Range(matrix.apps.deleted) :
         ValidIdentifier(r.app_name)
    /\ \A r \in Range(matrix.containers.updated) \cup Range(matrix.containers.all)
                \cup Range(matrix.containers.deleted) :
         ValidIdentifier(r.app_name) /\ ValidIdentifier(r.container_name)

\* C9: _normalize_azure_name is idempotent, and its result holds only
\* characters of [a-z0-9-], no '-' at either end and no two consecutive '-'.
C9_NormalizeIdempotent ==
  /\ Len(ny) >= 1 => ValidIdentifier(ny[1])
  /\ Len(ny) >= 2 => ny[2] = ny[1]

\* a string that normalization changes into a non-empty name, normalized twice
C9_Witness ==
  /\ pc = "norm2"
  /\ ny[1] # nx
  /\ ny[1] # <<>>
  /\ \E i \in 1..Len(nx) : nx[i] = "B"
  /\ nx[1] \in {"_", "-", "."}

\* the part of C10 that holds as stated: on a manual trigger the three
\* collections are empty, updated and deleted are empty for apps and
\* containers, and all is the full filtered inventory
ManualTriggerView ==
  /\ changed_files = {} /\ deleted_files = {} /\ renamed_files = EmptyFun
  /\ matrix.apps.updated = <<>> /\ matrix.containers.updated = <<>>
  /\ matrix.apps.deleted = <<>> /\ matrix.containers.deleted = <<>>
  /\ ~matrix.apps.has_updates /\ ~matrix.containers.has_updates
  /\ ~matrix.apps.has_deletions /\ ~matrix.containers.has_deletions
  /\ Len(matrix.apps.all) = Cardinality(KeptConfigUnits)
  /\ {r.path : r \in Range(matrix.apps.all)} = {PathStr(F) : F \in KeptConfigUnits}
  /\ Len(matrix.containers.all) = Cardinality(KeptDockerfiles)
  /\ {r.dockerfile.path : r \in Range(matrix.containers.all)}
       = {PathStr(f) : f \in KeptDockerfiles}

\* C10 as stated: on a manual trigger, all is non-empty for both apps and
\* containers whenever any unit exists in the tree.
C10_Original ==
  (pc = "done" /\ event = "workflow_dispatch") =>
    /\ ManualTriggerView
    /\ UnitFolders # {} => (matrix.apps.all # <<>> /\ matrix.containers.all # <<>>)

\* C10 amended: on a manual trigger the collections, updated and deleted are
\* empty and all is the full filtered inventory; apps.all is non-empty
\* whenever a kept unit has a configuration file, and containers.all whenever
\* a kept unit has a build-definition file.
C10_ManualTrigger ==
  (pc = "done" /\ event = "workflow_dispatch") =>
    /\ ManualTriggerView
    /\ KeptConfigUnits # {} => matrix.apps.all # <<>>
    /\ KeptDockerfiles # {} => matrix.containers.all # <<>>

\* a manual run over a tree whose diff against the previous commit is not
\* empty, with a unit listed in apps.all
C10_Witness ==
  /\ pc = "done"
  /\ event = "workflow_dispatch"
  /\ diffOut # <<>>
  /\ matrix.apps.all # <<>>

\* the well-formed Renamed records of the diff
RenameLines ==
  IF HasReference
  THEN {l \in Range(diffOut) : l.status \in RenameStatuses /\ Len(l.paths) >= 2}
  ELSE {}

\* positions of the records of containers.updated built from a file
UpdatedContainersOf(f) ==
  {k \in 1..Len(matrix.containers.updated) :
     matrix.containers.updated[k].dockerfile.path = PathStr(f)}

\* C11: for every rename record old -> new of the diff, new is in the changed
\* collection and the kept unit at new's direct parent is reported changed
\* (in apps.updated when it has a configuration file, and with all its
\* build-definition files in containers.updated), old is not in the deleted
\* collection, and no Unit or Artifact deletion record names the old path.
C11_RenameTransparency ==
  pc = "done" =>
    \A l \in RenameLines :
      LET old == l.paths[1]
          new == l.paths[2]
          F == Parent(new)
      IN /\ new \in changed_files
         /\ F \in KeptConfigUnits => UpdatedAppsAt(F) # {}
         /\ \A f \in KeptDockerfiles : Parent(f) = F => UpdatedContainersOf(f) # {}
         /\ old \notin deleted_files
         /\ \A k \in 1..Len(matrix.apps.deleted) :
              matrix.apps.deleted[k].app_config # PathStr(old)
         /\ ArtifactDeletionsFor(old) = {}

\* the deletion records of the emitted matrix, of both kinds
DeletionRecords == Range(matrix.apps.deleted) \cup Range(matrix.containers.deleted)

\* the reference commit identifier was resolved: a reference exists and its
\* rev-parse succeeded
ShaResolved == HasReference /\ revParseOk

\* C12: in every emitted matrix, when the reference commit identifier was
\* resolved every Unit and Artifact deletion record carries a commit_sha
\* equal to it; when it was not resolved no deletion record has the field.
C12_DeletionRecordsCarrySha ==
  pc = "done" =>
    \A r \in DeletionRecords :
      IF ShaResolved
      THEN "commit_sha" \in DOMAIN r /\ r.commit_sha = Sha
      ELSE "commit_sha" \notin DOMAIN r

\* a matrix with a Unit deletion and an Artifact deletion that carry the
\* same resolved identifier
C12_Witness ==
  /\ pc = "done"
  /\ ShaResolved
  /\ \E u \in Range(matrix.apps.deleted), a \in Range(matrix.containers.deleted) :
       u.commit_sha = Sha /\ a.commit_sha = Sha

\* build_unified_inventory has just returned: the inventory is not assigned
\* again afterwards
InventoryBuilt == pc = "process"

\* the folders of the Unit records of the inventory
InventoryFolders == {ParsePath(inventory[i].path) : i \in 1..Len(inventory)}

\* a path matches the include pattern the caller gave (if any) and not the
\* exclude pattern (if any)
PassesGivenPatterns(path) ==
  /\ include_arg = <<>> \/ FnMatch(PathStr(path), include_arg)
  /\ exclude_pattern = <<>> \/ ~FnMatch(PathStr(path), exclude_pattern)

\* the records of the four update/all lists of the emitted matrix
ListedPaths ==
  {r.path : r \in Range(matrix.apps.updated) \cup Range(matrix.apps.all)
                   \cup Range(matrix.containers.updated)
                   \cup Range(matrix.containers.all)}

\* C13 as stated: a discovered unit is kept in the inventory if and only if
\* its path matches the include pattern the caller gave (when one is given)
\* and not the exclude pattern (when one is given); a rejected unit is in
\* none of apps.updated, apps.all, containers.updated, containers.all.
C13_Original ==
  /\ InventoryBuilt => InventoryFolders = {F \in UnitFolders : PassesGivenPatterns(F)}
  /\ pc = "done" =>
       \A F \in UnitFolders : ~PassesGivenPatterns(F) => PathStr(F) \notin ListedPaths

\* C13 amended: the same, where an include pattern of "/", "." or "./"
\* counts as no include pattern.
C13_IncludeExcludeFilter ==
  /\ InventoryBuilt => InventoryFolders = {F \in UnitFolders : PassesFilter(F)}
  /\ pc = "done" =>
       \A F \in UnitFolders : ~PassesFilter(F) => PathStr(F) \notin ListedPaths

\* the caller gave "." as the include pattern: a unit outside the root is
\* kept and listed, and a unit the exclude pattern rejects is in none of the
\* lists although a file directly in its folder was modified
C13_Witness ==
  /\ pc = "done"
  /\ include_arg = <<".">>
  /\ \E F \in UnitFolders : F # <<>> /\ PathStr(F) \in ListedPaths
  /\ \E F \in UnitFolders :
       /\ ~PassesFilter(F)
       /\ \E p \in DiffAddedModified : Parent(p) = F
       /\ PathStr(F) \notin ListedPaths

\* the recognized files directly in a folder
RecognizedIn(F) == {f \in ConfigsOnDisk \cup DockerfilesOnDisk : Parent(f) = F}

\* every folder of the working tree, the root included
TreeFolders == {<<>>} \cup UNION {{SubSeq(f, 1, n) : n \in 0..(Len(f) - 1)} : f \in tree}

\* C14: the inventory has at most one Unit record per folder path; a folder
\* passing the include/exclude filter has a Unit record if and only if it
\* directly contains a recognized file; the artifact list of a unit holds
\* every recognized build-definition file of its folder exactly once and no
\* file of another folder.
C14_OneUnitPerFolder ==
  InventoryBuilt =>
    /\ \A i, j \in 1..Len(inventory) : inventory[i].path = inventory[j].path => i = j
    /\ \A F \in TreeFolders :
         PassesFilter(F) => ((F \in InventoryFolders) <=> (RecognizedIn(F) # {}))
    /\ \A i \in 1..Len(inventory) :
         LET arts == inventory[i].dockerfiles
         IN /\ \A k, l \in 1..Len(arts) : arts[k].path = arts[l].path => k = l
            /\ {arts[k].path : k \in 1..Len(arts)}
                 = {PathStr(f) : f \in {g \in DockerfilesOnDisk :
                                           PathStr(Parent(g)) = inventory[i].path}}

\* an inventory holding a unit with two build-definition files next to a
\* folder that holds no recognized file and has no Unit record
C14_Witness ==
  /\ InventoryBuilt
  /\ \E i \in 1..Len(inventory) : Len(inventory[i].dockerfiles) = 2
  /\ \E F \in TreeFolders : PassesFilter(F) /\ RecognizedIn(F) = {} /\ F \notin InventoryFolders

\* the configuration file an inventory record names declares a name: the file
\* exists, is readable, parses and has a top-level name
DeclaresName(e) ==
  /\ Truthy(e.app_config)
  /\ ParsePath(e.app_config) \in DOMAIN content
  /\ Truthy(content[ParsePath(e.app_config)])

\* C15: the appName of every unit is the name its configuration file
\* declares when the file exists, is readable, parses and declares one, and
\* otherwise the normalized folder name (the normalized root-directory name
\* for the root folder); the unit's configuration file is a configuration
\* file of its folder whenever the folder has one; a configuration without a
\* usable name neither aborts the run nor removes the unit from the
\* inventory.
C15_NameResolution ==
  /\ InventoryBuilt =>
       /\ \A i \in 1..Len(inventory) :
            LET e == inventory[i]
                F == ParsePath(e.path)
                configs == {c \in ConfigsOnDisk : Parent(c) = F}
            IN /\ Truthy(e.app_config) <=> configs # {}
               /\ Truthy(e.app_config) => ParsePath(e.app_config) \in configs
               /\ e.app_name = IF DeclaresName(e)
                                THEN content[ParsePath(e.app_config)]
                                ELSE FolderDerivedName(F)
       /\ KeptUnits \subseteq InventoryFolders
  /\ pc = "failed" => HasReference /\ ~diffOk

\* an inventory in which the root unit's configuration declares no name, so
\* the unit is named after the normalized root directory, next to a unit
\* named by its configuration
C15_Witness ==
  /\ InventoryBuilt
  /\ \E i, j \in 1..Len(inventory) :
       /\ inventory[i].path = PathStr(<<>>)
       /\ Truthy(inventory[i].app_config)
       /\ ~DeclaresName(inventory[i])
       /\ inventory[i].app_name = NormalizeAzureName(RootName)
       /\ inventory[i].app_name # RootName
       /\ DeclaresName(inventory[j])
       /\ inventory[j].app_name \in DeclaredNames

\* generate_matrix_output as one function of the order the directory walk
\* yields the files in and the order the deleted-path set is iterated in
RunMatrix(walk, order) ==
  LET ref == GetComparisonRef(event, revParseOk)
      res == IF ref[1] = <<>> THEN EmptyChanges ELSE ParseDiff(diffOut, 1, EmptyChanges)
      inv == BuildUnifiedInventory(DiscoverFilesIn(walk), include_pattern,
                                   exclude_pattern, content)
      by_folder == GroupDeleted(order, 1, <<>>, include_pattern, exclude_pattern)
  IN MatrixOf(AppsFrom(inv, 1, res.changed, TRUE),
              AppsFrom(inv, 1, res.changed, FALSE),
              WithCommitSha(DeletedAppsFrom(by_folder, 1, tree), ref[2]),
              ContainersFrom(inv, 1, res.changed, TRUE, dockerText),
              ContainersFrom(inv, 1, res.changed, FALSE, dockerText),
              WithCommitSha(DeletedContainersFrom(by_folder, 1, tree), ref[2]),
              ref[1])

\* two lists hold the same records, whatever their order
SameRecords(a, b) == Len(a) = Len(b) /\ Range(a) = Range(b)

\* two matrices are equal once their lists are put in a common order
SameMatrix(m1, m2) ==
  /\ m1.ref = m2.ref
  /\ \A kind \in {"apps", "containers"} :
       /\ SameRecords(m1[kind].updated, m2[kind].updated)
       /\ SameRecords(m1[kind].all, m2[kind].all)
       /\ SameRecords(m1[kind].deleted, m2[kind].deleted)
       /\ m1[kind].has_updates = m2[kind].has_updates
       /\ m1[kind].has_deletions = m2[kind].has_deletions

\* C16: the emitted matrix does not depend on the order the discovery yields
\* the files in nor on the order the deleted-path set is iterated in: up to
\* the order of its lists, every run emits the matrix of the run that walks
\* the tree and the deleted paths in one fixed order.
C16_Deterministic ==
  pc = "done" => SameMatrix(matrix, RunMatrix(SetToSeq(tree), SetToSeq(deleted_files)))

\* C17 as stated: if the rev-parse or the diff of a run exits non-zero, the
\* run does not complete and no matrix is emitted.
C17_Original ==
  (HasReference /\ (~revParseOk \/ ~diffOk)) => (pc # "done" /\ matrix = NoMatrix)

\* C17 amended: if the diff exits non-zero the run stops at the diff as a
\* failure and no matrix is emitted; a rev-parse that exits non-zero does not
\* by itself terminate the run.
C17_DiffFailureFatal ==
  /\ (HasReference /\ ~diffOk) => (pc \in {"start", "failed"} /\ matrix = NoMatrix)
  /\ (HasReference /\ ~revParseOk /\ diffOk) => pc # "failed"

\* a run that ended as a failure at the failing diff, nothing emitted
C17_Witness ==
  /\ pc = "failed"
  /\ HasReference /\ ~diffOk
  /\ matrix = NoMatrix
  /\ changed_files = {} /\ inventory = <<>>

\* C18: when the rev-parse of a push or pull-request run fails, the run does
\* not abort and behaves as with no change set: the changed and deleted
\* collections stay empty, the updated and deleted lists of the matrix are
\* empty, and the all lists hold the full filtered inventory.
C18_UnresolvedRefDegrades ==
  (event \in {"push", "pull_request"} /\ ~revParseOk) =>
    /\ pc # "failed"
    /\ changed_files = {} /\ deleted_files = {}
    /\ pc = "done" =>
         /\ matrix.apps.updated = <<>> /\ matrix.containers.updated = <<>>
         /\ matrix.apps.deleted = <<>> /\ matrix.containers.deleted = <<>>
         /\ {r.path : r \in Range(matrix.apps.all)} = {PathStr(F) : F \in KeptConfigUnits}
         /\ {r.dockerfile.path : r \in Range(matrix.containers.all)}
              = {PathStr(f) : f \in KeptDockerfiles}

\* the names of the records of a list, and the names a list of containers gives
AppNamesOf(list) == {r.app_name : r \in Range(list)}
ContainerNamesOf(list) == {r.container_name : r \in Range(list)}

\* C19 as stated: in scenario A the emitted matrix has apps.updated =
\* [frontend] and containers.updated = [frontend, backend], both container
\* names lowercase.
C19_Original ==
  pc = "done" =>
    /\ Len(matrix.apps.updated) = 1
    /\ AppNamesOf(matrix.apps.updated) = {Frontend}
    /\ Len(matrix.containers.updated) = 2
    /\ ContainerNamesOf(matrix.containers.updated) = {Frontend, Backend}
    /\ \A n \in ContainerNamesOf(matrix.containers.updated) : ToLower(n) = n

\* C19 amended: in scenario A apps.updated holds frontend and backend (the
\* modified Dockerfile of backend makes the unit changed), and
\* containers.updated holds the containers frontend and backend, both names
\* lowercase.
C19_ScenarioA ==
  pc = "done" =>
    /\ Len(matrix.apps.updated) = 2
    /\ AppNamesOf(matrix.apps.updated) = {Frontend, Backend}
    /\ {r.path : r \in Range(matrix.apps.updated)}
         = {PathStr(FolderFrontend), PathStr(FolderBackend)}
    /\ Len(matrix.containers.updated) = 2
    /\ ContainerNamesOf(matrix.containers.updated) = {Frontend, Backend}
    /\ \A n \in ContainerNamesOf(matrix.containers.updated) : ToLower(n) = n

\* the matrix of scenario A is emitted, with the unit backend in apps.updated
C19_Witness ==
  /\ pc = "done"
  /\ tree = ScenarioTree
  /\ DiffAddedModified = ScenarioModified
  /\ \E r \in Range(matrix.apps.updated) :
       r.app_name = Backend /\ r.path = PathStr(FolderBackend)
  /\ matrix.containers.has_updates

\* C20: every build-definition file of a kept unit appears in
\* containers.updated when some added/modified path lies directly in the
\* unit's folder (a configuration file, a build-definition file or any other
\* file), and none of them appears when no such path exists.
C20_AllArtifactsRule ==
  pc = "done" =>
    \A f \in KeptDockerfiles :
      (UpdatedContainersOf(f) # {}) <=> (\E p \in DiffAddedModified : Parent(p) = Parent(f))

\* a unit whose only changed file is neither its configuration nor one of
\* its build-definition files, with its unchanged build-definition file in
\* containers.updated
C20_Witness ==
  /\ pc = "done"
  /\ \E f \in KeptDockerfiles :
       /\ f \notin DiffAddedModified
       /\ \E p \in DiffAddedModified :
            Parent(p) = Parent(f) /\ ~IsAppConfigName(BaseName(p))
                                  /\ ~IsDockerfileName(BaseName(p))
       /\ UpdatedContainersOf(f) # {}

DiffParsed == HasReference /\ pc \notin {"start", "failed"}

\* C24: for every sequence of diff records, the deleted collection holds
\* exactly the paths of the Deleted records, the added/modified collection
\* exactly the paths of the Added and Modified records and the destinations
\* of the Renamed records that have both paths, and the renamed map exactly
\* the old -> new pairs of those Renamed records; short records, Renamed
\* records without a destination and records of any other status add nothing.
C24_DiffParsing ==
  DiffParsed =>
    LET records == Range(diffOut)
        added == {l \in records : l.status \in {"A", "M"} /\ Len(l.paths) >= 1}
        gone == {l \in records : l.status = "D" /\ Len(l.paths) >= 1}
    IN /\ deleted_files = {l.paths[1] : l \in gone}
       /\ changed_files = {l.paths[1] : l \in added} \cup {l.paths[2] : l \in RenameLines}
       /\ DOMAIN renamed_files = {l.paths[1] : l \in RenameLines}
       /\ \A old \in DOMAIN renamed_files :
            \E l \in RenameLines : l.paths[1] = old /\ l.paths[2] = renamed_files[old]

\* the collections a first call would parse from the current diff
FreshChanges ==
  IF HasReference THEN ParseDiff(diffOut, 1, EmptyChanges) ELSE EmptyChanges

\* C22: in every call of generate_matrix_output on an instance, the changed,
\* deleted and renamed collections are those of the diff of that call, and
\* the matrix returned is the matrix of a first call on the current tree and
\* diff: nothing of an earlier call is left in it.
C22_NoPersistence ==
  /\ pc \notin {"start", "failed"} =>
       /\ changed_files = FreshChanges.changed
       /\ deleted_files = FreshChanges.deleted
       /\ renamed_files = FreshChanges.renamed
  /\ pc = "done" =>
       \E walk \in Orderings(tree), order \in Orderings(FreshChanges.deleted) :
         matrix = RunMatrix(walk, order)

\* a second call has returned: the previous call reported deletions, this
\* one reports an update and no deletion
C22_Witness ==
  /\ pc = "done"
  /\ calls = 2
  /\ prev_matrix.apps.deleted # <<>> /\ prev_matrix.containers.deleted # <<>>
  /\ matrix.apps.deleted = <<>> /\ matrix.containers.deleted = <<>>
  /\ matrix.apps.updated # <<>>

RecordsAt(list, F) == {k \in 1..Len(list) : list[k].path = PathStr(F)}

\* kept units with a configuration file and no build-definition file, and
\* kept units with build-definition files and no configuration file
ConfigOnlyUnits ==
  {F \in KeptConfigUnits : ~\E f \in DockerfilesOnDisk : Parent(f) = F}
DockerfileOnlyUnits ==
  {F \in KeptUnits \ KeptConfigUnits : \E f \in DockerfilesOnDisk : Parent(f) = F}

\* C27: every record of apps.all and apps.updated has a non-empty
\* app_config; a kept unit with a configuration file and no build-definition
\* file has a record in apps.all and none in containers.all; a kept unit
\* with build-definition files and no configuration file has one
\* containers.all record per file and no record in apps.all or apps.updated.
C27_AppsNeedConfig ==
  pc = "done" =>
    /\ \A r \in Range(matrix.apps.all) \cup Range(matrix.apps.updated) :
         Truthy(r.app_config)
    /\ \A F \in ConfigOnlyUnits :
         /\ RecordsAt(matrix.apps.all, F) # {}
         /\ RecordsAt(matrix.containers.all, F) = {}
    /\ \A F \in DockerfileOnlyUnits :
         /\ Cardinality(RecordsAt(matrix.containers.all, F))
              = Cardinality({f \in DockerfilesOnDisk : Parent(f) = F})
         /\ RecordsAt(matrix.apps.all, F) = {}
         /\ RecordsAt(matrix.apps.updated, F) = {}

\* a matrix over a tree with a configuration-only unit and a
\* build-definition-only unit
C27_Witness ==
  /\ pc = "done"
  /\ \E F \in ConfigOnlyUnits : RecordsAt(matrix.apps.all, F) # {}
  /\ \E F \in DockerfileOnlyUnits : RecordsAt(matrix.containers.all, F) # {}

\* ------------------------------------------------------------------------
\* C28
\* ------------------------------------------------------------------------
\* C28: no folder path is both the path of a record of apps.all or
\* apps.updated and the path of a record of apps.deleted.
C28_LiveNotDeleted ==
  pc = "done" =>
    \A r \in Range(matrix.apps.all) \cup Range(matrix.apps.updated),
       d \in Range(matrix.apps.deleted) : r.path # d.path

\* ------------------------------------------------------------------------
\* C25
\* ------------------------------------------------------------------------
\* a line is a '# @context: <path>' directive, and the path it names
IsContextDirective(line) == StartsWith(StripWs(line), ContextDirective)
DirectivePath(line) ==
  LET t == StripWs(line)
  IN StripWs(SubSeq(t, Len(ContextDirective) + 1, Len(t)))

\* the numbers of the directive lines among the first 10 lines of a file
EarlyDirectives(f) ==
  {i \in 1..Len(dockerText[f]) : i <= 10 /\ IsContextDirective(dockerText[f][i])}

\* the file can be read
Readable(f) == f \in DOMAIN dockerText

Least(S) == CHOOSE i \in S : \A j \in S : i <= j

\* C25: the context of a containers.all record is the path of the first
\* directive among the first 10 lines of its build-definition file, and the
\* folder of the file when there is no directive in the first 10 lines
\* (one at line 11 or later included) or the file cannot be read.
C25_BuildContext ==
  pc = "done" =>
    \A r \in Range(matrix.containers.all) :
      LET f == ParsePath(r.dockerfile.path)
      IN IF Readable(f) /\ EarlyDirectives(f) # {}
         THEN r.context = DirectivePath(dockerText[f][Least(EarlyDirectives(f))])
         ELSE r.context = PathStr(Parent(f))

\* one file has its first directive on line 10 and another after it, and
\* gets the path of line 10; the other file has its only directive on line
\* 11 and gets its folder
C25_Witness ==
  /\ pc = "done"
  /\ \E r1, r2 \in Range(matrix.containers.all) :
       LET f1 == ParsePath(r1.dockerfile.path)
           f2 == ParsePath(r2.dockerfile.path)
       IN /\ Readable(f1) /\ Least(EarlyDirectives(f1) \cup {10}) = 10
          /\ EarlyDirectives(f1) = {10}
          /\ Len(dockerText[f1]) > 10 /\ IsContextDirective(dockerText[f1][11])
          /\ r1.context = <<"p">>
          /\ Readable(f2) /\ EarlyDirectives(f2) = {}
          /\ \E i \in 1..Len(dockerText[f2]) : IsContextDirective(dockerText[f2][i])
          /\ r2.context = PathStr(FolderX)

\* ------------------------------------------------------------------------
\* C26
\* ------------------------------------------------------------------------
\* the part of a build-definition file name after the leading 'Dockerfile.'
AfterLeadingDockerfileDot(n) ==
  IF n = Dockerfile THEN <<>> ELSE SubSeq(n, Len(DockerfileDot) + 1, Len(n))

\* the containers.all record of a file
LiveRecordsOf(f) ==
  {r \in Range(matrix.containers.all) : r.dockerfile.path = PathStr(f)}

\* C26: the suffix of every containers.all record is empty for the name
\* 'Dockerfile' and otherwise the part of the name after the leading
\* 'Dockerfile.', and a deleted build-definition path is named by the same
\* rule; with declared name secure-api, Dockerfile and Dockerfile.auth get
\* the container names secure-api and secure-api-auth.
C26_SuffixRule ==
  pc = "done" =>
    /\ \A r \in Range(matrix.containers.all) :
         /\ r.dockerfile.suffix = AfterLeadingDockerfileDot(r.dockerfile.name)
         /\ r.container_name
              = ToLower(Composed(r.app_name, AfterLeadingDockerfileDot(r.dockerfile.name)))
    /\ \A d \in Range(matrix.containers.deleted) :
         d.container_name
           = ToLower(Composed(d.app_name,
                              AfterLeadingDockerfileDot(BaseName(ParsePath(d.dockerfile)))))
    /\ \A F \in KeptConfigUnits :
         LET plain == F \o <<Dockerfile>>
             auth == F \o <<DockerfileDot \o <<"a","u","t","h">>>>
         IN (DeclaredIn(F) = {SecureApi} /\ {plain, auth} \subseteq tree) =>
              /\ \E r \in LiveRecordsOf(plain) : r.container_name = SecureApi
              /\ \E r \in LiveRecordsOf(auth) :
                   r.container_name = SecureApi \o <<"-","a","u","t","h">>

\* ------------------------------------------------------------------------
\* C29
\* ------------------------------------------------------------------------
\* C29: two containers.all records of one unit for two distinct
\* build-definition files have two distinct container names.
C29_DistinctContainerNames ==
  pc = "done" =>
    \A r1, r2 \in Range(matrix.containers.all) :
      (r1.path = r2.path /\ r1.dockerfile.path # r2.dockerfile.path)
        => r1.container_name # r2.container_name

\* ------------------------------------------------------------------------
\* C30
\* ------------------------------------------------------------------------
\* the deleted configuration and build-definition paths of the diff
DeletedRecognized ==
  {p \in DiffDeleted : IsAppConfigName(BaseName(p)) \/ IsDockerfileName(BaseName(p))}

\* a deleted path has a deletion record in the matrix
HasDeletionRecord(p) ==
  \/ \E d \in Range(matrix.apps.deleted) : d.app_config = PathStr(p)
  \/ \E d \in Range(matrix.containers.deleted) : d.dockerfile = PathStr(p)

\* C30: a deleted configuration or build-definition path has a deletion
\* record if and only if the patterns keep its parent folder in the
\* inventory.
C30_FilterConsistent ==
  pc = "done" =>
    \A p \in DeletedRecognized : HasDeletionRecord(p) <=> PassesFilter(Parent(p))

====
